---- MODULE Spec2Model ----
(***************************************************************************)
(* A model of the graspologic repository slice: the "graspologic Publish"  *)
(* and "graspologic Build" GitHub Actions workflows, and the computations  *)
(* of the tutorial notebooks (Holm-Bonferroni correction, edge             *)
(* disagreements, matching accuracy, clustering error rate).               *)
(*                                                                         *)
(* The workflows are modelled for one triggering event.  Every job of the  *)
(* build workflow runs its steps in order on its own runner; a job shares  *)
(* no state with the other jobs except the run's artifacts, so a job's     *)
(* run is one action that draws the step that fails (if any).  The publish *)
(* job is modelled step by step.                                           *)
(***************************************************************************)
EXTENDS Integers, Sequences, FiniteSets, TLC

VARIABLES
    event,      \* the GitHub event being processed
    wfRuns,     \* the workflows the event has triggered
    job,        \* conclusion of each single job of the build workflow
    mjob,       \* conclusion of each unit-and-doc-test matrix combination
    typeChecked,\* matrix combinations whose mypy step passed after their unit tests
    artifacts,  \* files uploaded to the run's artifacts
    pjob,       \* status of the publish job
    ppc,        \* index of the publish job's next step
    steps,      \* outcome of each step of the publish job
    env,        \* variables written to $GITHUB_ENV by the publish job
    dist,       \* source distributions in the publish job's dist/
    pypi,       \* distributions uploaded by twine
    site,       \* whether docs/documentation-site was downloaded
    pages,      \* destination directories published to GitHub Pages
    releases,   \* tags / GitHub releases created
    mcc,        \* names bound in the kernel of mcc.ipynb
    faq,        \* names bound in the kernel of faq.ipynb
    ase,        \* names bound in the kernel of AdjacencySpectralEmbed.ipynb
    rdpg,       \* names bound in the kernel of rdpg_corr.ipynb
    mase        \* names bound in the kernel of the MASE tutorial

nbVars == <<mcc, faq, ase, rdpg, mase>>

ciVars == <<event, wfRuns, job, mjob, typeChecked, artifacts,
            pjob, ppc, steps, env, dist, pypi, site, pages, releases>>

(***************************************************************************)
(* Bounds of the model.                                                    *)
(***************************************************************************)
\* Matrix combinations that may fail in one run.
MaxFailedCombos == 1
\* Number of tests (rows) whose p-values are corrected.
MaxTests == 3
\* p-values are multiples of 1/PUnits.
PUnits == 100
\* Nodes of the graphs matched in faq.ipynb (50 in the notebook).
MaxNodes == 3
\* Padded matching: nodes per block (100), nodes kept per block (75) and
\* blocks (4) of G1 in the notebook.
BlockSize == 2
KeptPerBlock == 1
NBlocks == 3
\* Nodes per block of the SBM that is clustered (100 in the notebook).
n_verts == 3
\* Half the nodes of every graph of rdpg_corr.ipynb (50 in the notebook).
HalfNodes == 1
\* Vertices of a connectome (332 in the notebook).
n_vertices == 3
\* Executions of the edge-testing cell after one execution of the cell
\* that creates indices.
MaxRuns == 2
\* Seeds drawn for the padded matching (8 in the notebook).
NSeeds == 1
\* Graphs sampled from each SBM for the embedding of many graphs (100 in
\* the MASE tutorial).
GraphsPerSbm == 1
\* Vertices in each block of the SBMs of the MASE tutorial (25).
BlockVertices == 1

(***************************************************************************)
(* Events and triggers.                                                    *)
(***************************************************************************)
Branches == {"main", "dev", "feature"}

ChangedPaths == {".all-contributorsrc", "CONTRIBUTORS.md", "setup.py"}

NoEvent == [kind |-> "none", branch |-> "none", paths |-> {}]

\* A push to a branch, or a pull request (whose ref is the merge ref).
Events ==
    [kind : {"push"}, branch : Branches, paths : SUBSET ChangedPaths \ {{}}]
    \cup [kind : {"pull_request"}, branch : {"none"},
          paths : SUBSET ChangedPaths \ {{}}]

Ref(e) ==
    IF e.kind = "push"
    THEN CASE e.branch = "main" -> "refs/heads/main"
           [] e.branch = "dev" -> "refs/heads/dev"
           [] OTHER -> "refs/heads/feature"
    ELSE "refs/pull/1/merge"

PathsIgnore == {".all-contributorsrc", "CONTRIBUTORS.md"}

\* paths-ignore: the workflow is skipped only when every changed path matches.
PathFilterPasses(paths) == paths \ PathsIgnore # {}

PublishBranches == {"main", "dev"}

BuildBranchesIgnoreNone == {}
BuildBranchesIgnore == {"dev", "main"}

PublishTriggered(e) ==
    /\ e.kind = "push"
    /\ e.branch \in PublishBranches
    /\ PathFilterPasses(e.paths)

BuildTriggered(e) ==
    \/ /\ e.kind = "push"
       /\ e.branch \notin BuildBranchesIgnore
       /\ PathFilterPasses(e.paths)
    \/ /\ e.kind = "pull_request"
       /\ PathFilterPasses(e.paths)

Triggered(e) ==
    (IF PublishTriggered(e) THEN {"graspologic Publish"} ELSE {})
    \cup (IF BuildTriggered(e) THEN {"graspologic Build"} ELSE {})

\* Both workflows run the build jobs: Build as its own jobs, Publish through
\* jobs.build (uses: ./.github/workflows/build.yml).
BuildJobRuns(runs) ==
    Cardinality(runs \cap {"graspologic Build", "graspologic Publish"})

(***************************************************************************)
(* The jobs of the build workflow.                                         *)
(***************************************************************************)
SingleJobs == {"static-code-analysis", "build-reference-documentation",
               "code-format-check", "test-coverage"}

OperatingSystems == {"ubuntu-latest", "windows-latest", "macos-latest"}
PythonVersions == {"3.8", "3.9", "3.10", "3.11"}
Matrix == OperatingSystems \X PythonVersions

FailFastDefault == TRUE
FailFast == FALSE

StaticCodeAnalysisSteps == <<"checkout", "codeql-init", "codeql-analyze">>
BuildReferenceDocumentationSteps ==
    <<"checkout", "setup-python", "sphinx-build",
      "upload-dependencies", "upload-documentation-site">>
CodeFormatCheckSteps == <<"checkout", "setup-python", "format-check">>
TestCoverageSteps == <<"checkout", "setup-python", "test-coverage">>

UnitAndDocTestSteps ==
    <<"checkout", "setup-python", "install", "pytest", "mypy",
      "deptree", "upload-dependencies">>

JobSteps(j) ==
    CASE j = "static-code-analysis" -> StaticCodeAnalysisSteps
      [] j = "build-reference-documentation" -> BuildReferenceDocumentationSteps
      [] j = "code-format-check" -> CodeFormatCheckSteps
      [] OTHER -> TestCoverageSteps

\* A job runs its steps in order; the first failing step ends it (failAt = 0:
\* no step fails).  ran: the steps attempted.
RunSteps(stepSeq, failAt) ==
    [ran |-> SubSeq(stepSeq, 1, IF failAt = 0 THEN Len(stepSeq) ELSE failAt),
     conclusion |-> IF failAt = 0 THEN "success" ELSE "failure"]

Succeeded(r) ==
    IF r.conclusion = "success" THEN r.ran
    ELSE SubSeq(r.ran, 1, Len(r.ran) - 1)

Range(s) == {s[i] : i \in DOMAIN s}

\* The artifact files a single job's successful steps upload (a file name is
\* the sequence of its parts).
SingleJobUploads(j, done) ==
    IF j = "build-reference-documentation"
    THEN (IF "upload-dependencies" \in Range(done)
          THEN {[name |-> "dependencies",
                 file |-> <<"dependencies_", "documentation", ".txt">>]}
          ELSE {})
         \cup (IF "upload-documentation-site" \in Range(done)
               THEN {[name |-> "documentation-site", file |-> <<"docs/_build/html">>]}
               ELSE {})
    ELSE {}

\* dependencies_${{matrix.os}}.txt
MatrixJobUploadsByOs(c, uploaded) ==
    IF uploaded
    THEN {[name |-> "dependencies", file |-> <<"dependencies_", c[1], ".txt">>]}
    ELSE {}

\* dependencies_${{matrix.python_version}}_${{matrix.os}}.txt
MatrixJobUploads(c, uploaded) ==
    IF uploaded
    THEN {[name |-> "dependencies",
           file |-> <<"dependencies_", c[2], "_", c[1], ".txt">>]}
    ELSE {}

\* The unit tests passed and, after them, the type check.
TypeCheckedAfterTests(done) ==
    \E i, k \in DOMAIN done : i < k /\ done[i] = "pytest" /\ done[k] = "mypy"

\* What a run of a matrix combination leaves behind.
JobOutcome(r) ==
    [conclusion |-> r.conclusion,
     typeChecked |-> TypeCheckedAfterTests(Succeeded(r)),
     uploaded |-> "upload-dependencies" \in Range(Succeeded(r))]

UnitAndDocTestOutcomes ==
    {JobOutcome(RunSteps(UnitAndDocTestSteps, failAt)) :
        failAt \in 0..Len(UnitAndDocTestSteps)}

MatrixConclusion(m) ==
    IF \A c \in Matrix : m[c] = "success" THEN "success"
    ELSE IF \E c \in Matrix : m[c] = "queued" THEN "pending"
    ELSE "failure"

\* The called workflow concludes when all its jobs have, and succeeds only if
\* all of them did.
BuildConclusion(js, m) ==
    IF \E j \in SingleJobs : js[j] = "queued" THEN "pending"
    ELSE IF MatrixConclusion(m) = "pending" THEN "pending"
    ELSE IF (\A j \in SingleJobs : js[j] = "success")
            /\ MatrixConclusion(m) = "success" THEN "success"
    ELSE "failure"

(***************************************************************************)
(* The publish job.                                                        *)
(***************************************************************************)
\* The documentation is published before it is downloaded.
PublishStepsDownloadLate ==
    <<"checkout", "setup-python", "install-dependencies",
      "create-version-env", "build-release", "build-prerelease",
      "publish-with-twine",
      "publish-docs-dev", "publish-docs-main", "publish-docs-latest",
      "download-documentation", "create-tag-and-release">>

PublishSteps ==
    <<"checkout", "setup-python", "install-dependencies",
      "create-version-env", "build-release", "build-prerelease",
      "publish-with-twine", "download-documentation",
      "publish-docs-dev", "publish-docs-main", "publish-docs-latest",
      "create-tag-and-release">>

NoNeeds == {}
PublishNeeds == {"build"}

PublishIf(ref) == ref = "refs/heads/main" \/ ref = "refs/heads/dev"

\* A step's if: condition (a step without one always passes it).
StepIfSwapped(s, ref) ==
    CASE s = "build-release" -> ref = "refs/heads/dev"
      [] s = "build-prerelease" -> ref = "refs/heads/main"
      [] s = "publish-with-twine" ->
            ref = "refs/heads/main" \/ ref = "refs/heads/dev"
      [] s = "publish-docs-dev" -> ref = "refs/heads/dev"
      [] s = "publish-docs-main" -> ref = "refs/heads/main"
      [] s = "publish-docs-latest" -> ref = "refs/heads/main"
      [] s = "create-tag-and-release" -> ref = "refs/heads/main"
      [] OTHER -> TRUE
StepIfDocsLatestOnDev(s, ref) ==
    CASE s = "build-release" -> ref = "refs/heads/main"
      [] s = "build-prerelease" -> ref = "refs/heads/dev"
      [] s = "publish-with-twine" ->
            ref = "refs/heads/main" \/ ref = "refs/heads/dev"
      [] s = "publish-docs-dev" -> ref = "refs/heads/dev"
      [] s = "publish-docs-main" -> ref = "refs/heads/main"
      [] s = "publish-docs-latest" ->
            ref = "refs/heads/main" \/ ref = "refs/heads/dev"
      [] s = "create-tag-and-release" -> ref = "refs/heads/main"
      [] OTHER -> TRUE
StepIf(s, ref) ==
    CASE s = "build-release" -> ref = "refs/heads/main"
      [] s = "build-prerelease" -> ref = "refs/heads/dev"
      [] s = "publish-with-twine" ->
            ref = "refs/heads/main" \/ ref = "refs/heads/dev"
      [] s = "publish-docs-dev" -> ref = "refs/heads/dev"
      [] s = "publish-docs-main" -> ref = "refs/heads/main"
      [] s = "publish-docs-latest" -> ref = "refs/heads/main"
      [] s = "create-tag-and-release" -> ref = "refs/heads/main"
      [] OTHER -> TRUE

\* What a step needs in order to succeed.
StepCanSucceed(s) ==
    CASE s = "publish-with-twine" -> dist # {}
      [] s = "download-documentation" ->
            \E a \in artifacts : a.name = "documentation-site"
      [] s \in {"publish-docs-dev", "publish-docs-main", "publish-docs-latest"} ->
            site
      [] OTHER -> TRUE

\* destination_dir: ${{ env.GRASPOLOGIC_VERSION }}
VersionDir == IF "GRASPOLOGIC_VERSION" \in env THEN "<version>" ELSE ""
\* tag: ${{ env.GRASPOLOGIC_TAG }}
VersionTag == IF "GRASPOLOGIC_TAG" \in env THEN "v<version>" ELSE ""

StepEffect(s) ==
    /\ env' = IF s = "create-version-env"
              THEN env \cup {"GRASPOLOGIC_VERSION", "GRASPOLOGIC_TAG"} ELSE env
    /\ dist' = CASE s = "build-release" -> dist \cup {"<version>"}
                 [] s = "build-prerelease" -> dist \cup {"<version>.dev<run_id>"}
                 [] OTHER -> dist
    /\ pypi' = IF s = "publish-with-twine" THEN pypi \cup dist ELSE pypi
    /\ site' = IF s = "download-documentation" THEN TRUE ELSE site
    /\ pages' = CASE s = "publish-docs-dev" -> pages \cup {"pre-release"}
                  [] s = "publish-docs-main" -> pages \cup {VersionDir}
                  [] s = "publish-docs-latest" -> pages \cup {"latest"}
                  [] OTHER -> pages
    /\ releases' = IF s = "create-tag-and-release"
                   THEN releases \cup {VersionTag} ELSE releases

NoStepEffect == UNCHANGED <<env, dist, pypi, site, pages, releases>>

\* path: docs/documentation-site (download-artifact)
DownloadPath == "docs/documentation-site"
\* publish_dir of the steps that publish the reference documentation
PublishDir(s) ==
    CASE s = "publish-docs-dev" -> "docs/documentation-site"
      [] s = "publish-docs-main" -> "docs/documentation-site"
      [] s = "publish-docs-latest" -> "docs/documentation-site"

\* The files a step of the publish job writes to the workspace: sdist
\* writes dist/, download-artifact writes its path.
StepWrites(s) ==
    CASE s = "build-release" -> {"dist/*"}
      [] s = "build-prerelease" -> {"dist/*"}
      [] s = "download-documentation" -> {DownloadPath}
      [] OTHER -> {}

\* The files a step hands to its command or action: twine upload dist/*,
\* publish_dir of the Pages steps, artifacts of the release action.
StepReads(s) ==
    CASE s = "publish-with-twine" -> {"dist/*"}
      [] s \in {"publish-docs-dev", "publish-docs-main", "publish-docs-latest"} ->
            {PublishDir(s)}
      [] s = "create-tag-and-release" -> {"versions_at_release.txt"}
      [] OTHER -> {}

LastStep == Len(PublishSteps)

(***************************************************************************)
(* The notebooks.  A notebook's state is the names bound in its kernel; a  *)
(* code cell is an action.  numpy arrays are functions on 0..n-1, graphs   *)
(* are functions on pairs of nodes, DataFrame rows are sequences.          *)
(***************************************************************************)
RECURSIVE SumOver(_, _)
\* np.sum of the entries of f at the indices in S.
SumOver(f, S) ==
    IF S = {} THEN 0
    ELSE LET x == CHOOSE x \in S : TRUE IN f[x] + SumOver(f, S \ {x})

Abs(x) == IF x < 0 THEN -x ELSE x

Nodes(n) == 0..(n - 1)

NodePermutations(n) ==
    {p \in [Nodes(n) -> Nodes(n)] : \A i, k \in Nodes(n) : p[i] = p[k] => i = k}

(***************************************************************************)
(* mcc.ipynb: the Holm-Bonferroni correction of the edge p-values (the     *)
(* vertex p-values are corrected by the same lines on vertex_pvals).       *)
(* A p-value p stands for p / PUnits.                                      *)
(***************************************************************************)
PValues == {0, 1, 2, 3, 5, 25, 50, PUnits} \cap 0..PUnits

\* alpha = 0.05 = AlphaNum / AlphaDen
AlphaNum == 1
AlphaDen == 20

\* sort_values(by="pval"): the rows in an order of nondecreasing pval; the
\* default sort is not stable, so rows with equal pval come in any order.
SortValues(rows) ==
    LET n == Len(rows) IN
    {[i \in 1..n |-> rows[f[i]]] :
        f \in {g \in [1..n -> 1..n] :
                 /\ \A i, k \in 1..n : g[i] = g[k] => i = k
                 /\ \A i \in 1..(n - 1) : rows[g[i]].pval <= rows[g[i + 1]].pval}}

\* rank(ascending=False, method="min"): the lowest rank of the group.
RankMin(col) ==
    [i \in DOMAIN col |-> 1 + Cardinality({k \in DOMAIN col : col[k] > col[i]})]
\* rank(ascending=False, method="max"): ranks count from the largest value;
\* equal values all get the highest rank of their group.
Rank(col) ==
    [i \in DOMAIN col |-> Cardinality({k \in DOMAIN col : col[k] >= col[i]})]

\* lambda pval: pval
NoClip(pval) == pval
\* lambda pval: 1 if pval > 1 else pval
Clip(pval) == IF pval > PUnits THEN PUnits ELSE pval

\* holm_pval < alpha
Significant(holm_pval) == holm_pval * AlphaDen < AlphaNum * PUnits

\* keep_indices: the first KeptPerBlock nodes of each block of G1.
KeepIndices(blockSize, kept, blocks) ==
    [x \in 0..(kept * blocks - 1) |-> (x \div kept) * blockSize + (x % kept)]

keep_indices == KeepIndices(BlockSize, KeptPerBlock, NBlocks)

G1Size == BlockSize * NBlocks
G2Size == KeptPerBlock * NBlocks

\* The matchings graph_match may return: G2Size pairs (indices1[i],
\* indices2[i]) of distinct nodes of G1 with the nodes of G2.
Matchings ==
    {m \in [indices1 : [Nodes(G2Size) -> Nodes(G1Size)],
            indices2 : NodePermutations(G2Size)] :
        \A i, k \in Nodes(G2Size) : m.indices1[i] = m.indices1[k] => i = k}

compute_match_ratio(indices1, indices2) ==
    LET len == Cardinality(DOMAIN indices2)
        match_ratio ==
            Cardinality({i \in 0..(len - 1) :
                            /\ indices1[i] = keep_indices[i]
                            /\ indices2[i] = i})
    IN [num |-> match_ratio, den |-> len]

MccIdle ==
    [cell |-> "start", edge_pvals |-> <<>>, pval_rank |-> <<>>,
     indices1 |-> <<>>, indices2 |-> <<>>, printed |-> <<>>,
     bound |-> {}, indices |-> <<>>, edge_runs |-> 0, raised |-> FALSE,
     seed1 |-> <<>>, seed2 |-> <<>>, partial_match |-> <<>>,
     roi_index |-> 0, roi_name |-> [ROI |-> 0, hemisphere |-> "none"]]

\* np.arange(start, stop) as a sequence
Arange(start, stop) == [k \in 1..(stop - start) |-> start + k - 1]

\* keep_indices as the notebook writes it, an array indexed from 0.
KeepIndicesOfG2 ==
    LET kept == Arange(0, 75) \o Arange(100, 175) \o Arange(200, 275)
                  \o Arange(300, 375)
    IN [x \in 0..(Len(kept) - 1) |-> kept[x + 1]]

\* int(x / d) for 0 <= x: the quotient is truncated.
IntOfQuotient(x, d) == x \div d

\* x for x in seed2
Seed1Identity(x) == x
\* int(x / 75) * 25 + x for x in seed2
Seed1(x) == IntOfQuotient(x, 75) * 25 + x

\* seed2 is drawn among the nodes of G2, seed1 computed from it and the
\* two are stacked as the columns of partial_match.
SeedsCell ==
    /\ mcc.cell = "start"
    /\ \E seed2 \in [1..NSeeds -> DOMAIN KeepIndicesOfG2] :
          LET seed1 == [i \in DOMAIN seed2 |-> Seed1(seed2[i])] IN
          mcc' = [mcc EXCEPT
                !.cell = "seeded",
                !.seed2 = seed2,
                !.seed1 = seed1,
                !.partial_match = [i \in DOMAIN seed2 |-> <<seed1[i], seed2[i]>>]]
    /\ UNCHANGED <<faq, ase, rdpg, mase>>

\* The 332 regions of interest of a connectome.
ROIs == 332

\* hemisphere = "R" if index % 166 else "L"
lookup_roi_name_by_remainder(index) ==
    [ROI |-> (index % 166) + 1,
     hemisphere |-> IF (index % 166) # 0 THEN "R" ELSE "L"]
\* lookup_roi_name(index): the number of the ROI queried in the atlas and
\* the hemisphere appended to its name.
lookup_roi_name(index) ==
    [ROI |-> (index % 166) + 1,
     hemisphere |-> IF (index \div 166) # 0 THEN "R" ELSE "L"]

\* lookup_roi_name applied to the index of a vertex.
LookupCell ==
    /\ \E index \in 0..(ROIs - 1) :
          mcc' = [mcc EXCEPT !.cell = "named",
                             !.roi_index = index,
                             !.roi_name = lookup_roi_name(index)]
    /\ UNCHANGED <<faq, ase, rdpg, mase>>

\* np.triu_indices(n, 1): the pairs (i, j), i < j, row by row.
TriuIndices(n) ==
    LET pairs == {q \in Nodes(n) \X Nodes(n) : q[1] < q[2]}
        before(q) == {o \in pairs : o[1] * n + o[2] < q[1] * n + q[2]}
    IN [k \in 1..Cardinality(pairs) |->
          CHOOSE q \in pairs : Cardinality(before(q)) = k - 1]

\* What KSample("Dcorr").test(*samples, ...) does for one edge: it returns
\* a statistic and a p-value, or raises ValueError (a sample of variance 0).
TestOutcomes ==
    {[raises |-> "none", statistic |-> "stat", pvalue |-> p] : p \in {1, PUnits \div 2, PUnits}}
    \cup {[raises |-> "ValueError", statistic |-> "none", pvalue |-> 0]}

\* No except clause
CatchesNothing(exception) == FALSE
\* except ValueError:
Catches(exception) == exception = "ValueError"

\* indices = zip(*np.triu_indices(n_vertices, 1))
IndicesCell ==
    /\ mcc.cell # "looping"
    /\ mcc' = [mcc EXCEPT !.cell = "indices",
                          !.raised = FALSE,
                          !.bound = @ \cup {"indices"},
                          !.indices = TriuIndices(n_vertices),
                          !.edge_runs = 0]
    /\ UNCHANGED <<faq, ase, rdpg, mase>>

\* The edge-testing cell starts: edge_pvals = [] and the for statement
\* takes the iterator indices.
EdgeLoopStart ==
    /\ mcc.cell # "looping"
    /\ mcc.edge_runs < MaxRuns
    /\ IF "indices" \notin mcc.bound
       THEN mcc' = [mcc EXCEPT !.cell = "tested",
                               !.raised = TRUE,
                               !.bound = @ \cup {"edge_pvals"},
                               !.edge_pvals = <<>>]
       ELSE mcc' = [mcc EXCEPT !.cell = "looping",
                               !.raised = FALSE,
                               !.bound = @ \cup {"edge_pvals"},
                               !.edge_pvals = <<>>,
                               !.edge_runs = @ + 1]
    /\ UNCHANGED <<faq, ase, rdpg, mase>>

\* One pass of the loop: the next pair of the iterator is tested and its
\* record appended; an exception that is not caught ends the cell.
EdgeLoopBody ==
    /\ mcc.cell = "looping"
    /\ mcc.indices # <<>>
    /\ \E t \in TestOutcomes :
          LET roi == Head(mcc.indices)
              statistic == IF t.raises = "none" THEN t.statistic ELSE "nan"
              pvalue == IF t.raises = "none" THEN t.pvalue ELSE PUnits
          IN IF t.raises # "none" /\ ~Catches(t.raises)
             THEN mcc' = [mcc EXCEPT !.cell = "tested",
                                     !.raised = TRUE,
                                     !.indices = Tail(@)]
             ELSE mcc' = [mcc EXCEPT
                     !.indices = Tail(@),
                     !.edge_pvals = Append(@, [ROI_1 |-> roi[1], ROI_2 |-> roi[2],
                                               stat |-> statistic, pval |-> pvalue])]
    /\ UNCHANGED <<faq, ase, rdpg, mase>>

\* The iterator is exhausted: the loop and the cell end.
EdgeLoopEnd ==
    /\ mcc.cell = "looping"
    /\ mcc.indices = <<>>
    /\ mcc' = [mcc EXCEPT !.cell = "tested"]
    /\ UNCHANGED <<faq, ase, rdpg, mase>>

\* The edge tests leave one row per test, with the p-value of the test.
EdgeTestsCell ==
    /\ mcc.cell = "start"
    /\ \E n \in 1..MaxTests : \E pval \in [1..n -> PValues] :
          mcc' = [mcc EXCEPT !.cell = "tested",
                             !.edge_pvals = [i \in 1..n |->
                                               [ROI |-> i, pval |-> pval[i]]]]
    /\ UNCHANGED <<faq, ase, rdpg, mase>>

\* The cell that corrects the p-values and tests for significance.
HolmCell ==
    /\ mcc.cell = "tested"
    /\ \E sorted \in SortValues(mcc.edge_pvals) :
          LET pval_rank == Rank([i \in DOMAIN sorted |-> sorted[i].pval])
              holm_pval == [i \in DOMAIN sorted |->
                              Clip(sorted[i].pval * pval_rank[i])]
          IN mcc' = [mcc EXCEPT
                !.cell = "corrected",
                !.pval_rank = pval_rank,
                !.edge_pvals = [i \in DOMAIN sorted |->
                                  [ROI |-> sorted[i].ROI,
                                   pval |-> sorted[i].pval,
                                   holm_pval |-> holm_pval[i],
                                   significant |-> Significant(holm_pval[i])]]]
    /\ UNCHANGED <<faq, ase, rdpg, mase>>

\* graph_match(G1, G2, partial_match=..., padding=...), naive or adopted.
PaddedMatchCell ==
    /\ mcc.cell = "start"
    /\ \E m \in Matchings :
          mcc' = [mcc EXCEPT !.cell = "matched",
                             !.indices1 = m.indices1,
                             !.indices2 = m.indices2]
    /\ UNCHANGED <<faq, ase, rdpg, mase>>

\* print(f"Matching accuracy ...: {compute_match_ratio(...)}")
MatchRatioCell ==
    /\ mcc.cell = "matched"
    /\ mcc' = [mcc EXCEPT
          !.cell = "printed",
          !.printed = <<compute_match_ratio(mcc.indices1, mcc.indices2)>>]
    /\ UNCHANGED <<faq, ase, rdpg, mase>>

(***************************************************************************)
(* faq.ipynb.                                                              *)
(***************************************************************************)
Pairs(n) == Nodes(n) \X Nodes(n)

\* er_np(n, p) with 0 < p < 1: any undirected graph without self-loops.
Graphs(n) ==
    {G \in [Pairs(n) -> {0, 1}] :
        /\ \A i \in Nodes(n) : G[<<i, i>>] = 0
        /\ \A i, k \in Nodes(n) : G[<<i, k>>] = G[<<k, i>>]}

Size(G) == Cardinality({q[1] : q \in DOMAIN G})

\* G[np.ix_(r, c)]
Ix(G, r, c) == [q \in DOMAIN G |-> G[<<r[q[1]], c[q[2]]>>]]
\* G[p]: the rows p[0], p[1], ...
RowIndex(G, p) == [q \in DOMAIN G |-> G[<<p[q[1]], q[2]>>]]
\* G[p] again instead of G[:, p]
ColIndexAsRows(G, p) == [q \in DOMAIN G |-> G[<<p[q[1]], q[2]>>]]
\* G[:, p]: the columns p[0], p[1], ...
ColIndex(G, p) == [q \in DOMAIN G |-> G[<<q[1], p[q[2]]>>]]

\* np.sum(abs(A - B))
SumAbsDiff(A, B) == SumOver([q \in DOMAIN A |-> Abs(A[q] - B[q])], DOMAIN A)

FaqIdle ==
    [cell |-> "start", G1 |-> <<>>, G2 |-> <<>>, node_shuffle_input |-> <<>>,
     perm_inds |-> <<>>, printed |-> <<>>]

\* G1 is sampled, shuffled into G2, and the disagreements are printed.
ShuffleCell ==
    /\ faq.cell = "start"
    /\ \E n \in 1..MaxNodes : \E G \in Graphs(n) : \E s \in NodePermutations(n) :
          LET shuffled == Ix(G, s, s) IN
          faq' = [faq EXCEPT !.cell = "shuffled",
                             !.G1 = G,
                             !.node_shuffle_input = s,
                             !.G2 = shuffled,
                             !.printed = <<SumAbsDiff(G, shuffled)>>]
    /\ UNCHANGED <<mcc, ase, rdpg, mase>>

\* graph_match returns some permutation; G2 is permuted by it and the
\* disagreements are printed again.
GraphMatchCell ==
    /\ faq.cell = "shuffled"
    /\ \E p \in NodePermutations(Size(faq.G1)) :
          LET permuted == ColIndex(RowIndex(faq.G2, p), p) IN
          faq' = [faq EXCEPT !.cell = "matched",
                             !.perm_inds = p,
                             !.G2 = permuted,
                             !.printed = Append(faq.printed,
                                                SumAbsDiff(faq.G1, permuted))]
    /\ UNCHANGED <<mcc, ase, rdpg, mase>>

(***************************************************************************)
(* AdjacencySpectralEmbed.ipynb: the clustering loop.                      *)
(***************************************************************************)
\* labels_sbm = n_verts * [0] + n_verts * [1]
labels_sbm == [i \in Nodes(2 * n_verts) |-> IF i < n_verts THEN 0 ELSE 1]

\* for insularity in np.linspace(0.5, 0.625, 4)
Insularities == 4

\* error = labels_sbm - labels_kmeans; error = error > 0
ErrorOneSided(labels_kmeans) ==
    [i \in DOMAIN labels_sbm |-> (labels_sbm[i] - labels_kmeans[i]) > 0]
\* error = labels_sbm - labels_kmeans; error = error != 0
Error(labels_kmeans) ==
    [i \in DOMAIN labels_sbm |-> (labels_sbm[i] - labels_kmeans[i]) # 0]

\* np.sum(error)
Count(error) == Cardinality({i \in DOMAIN error : error[i]})

NeverInverse(error) == FALSE
\* np.sum(error) / (2 * n_verts) > 0.5
IsInverse(error) == 2 * Count(error) > 2 * n_verts

AseIdle ==
    [cell |-> "loop", iteration |-> 0, labels_kmeans |-> <<>>, error |-> <<>>,
     error_rate |-> [num |-> 0, den |-> 1], error_label |-> <<>>]

\* Xhat is embedded and k-means labels every node 0 or 1.
KMeansStep ==
    /\ ase.cell = "loop"
    /\ ase.iteration < Insularities
    /\ \E labels \in [Nodes(2 * n_verts) -> {0, 1}] :
          ase' = [ase EXCEPT !.cell = "fitted",
                             !.iteration = ase.iteration + 1,
                             !.labels_kmeans = labels]
    /\ UNCHANGED <<mcc, faq, rdpg, mase>>

\* The rest of the loop body: error, error_rate and error_label.
ErrorRateStep ==
    /\ ase.cell = "fitted"
    /\ LET differs == Error(ase.labels_kmeans)
           error == IF IsInverse(differs)
                    THEN [i \in DOMAIN differs |-> differs[i] = FALSE]
                    ELSE differs
       IN ase' = [ase EXCEPT
             !.cell = "loop",
             !.error = error,
             !.error_rate = [num |-> Count(error), den |-> 2 * n_verts],
             !.error_label = [i \in DOMAIN error |->
                                IF error[i] THEN "Wrong" ELSE "Right"]]
    /\ UNCHANGED <<mcc, faq, rdpg, mase>>

(***************************************************************************)
(* rdpg_corr.ipynb.  The cells may be executed in any order; a cell that   *)
(* reads a name no executed cell has bound stops there with a NameError.   *)
(* Correlations are in tenths.                                             *)
(***************************************************************************)
\* X = np.array([[0.5, 0.2, 0.2]] * 50 + [[0.1, 0.1, 0.1]] * 50)
FirstXRows == HalfNodes + HalfNodes
\* X = np.random.dirichlet([10, 10], size=100)
DirichletXRows == 2 * HalfNodes
\* n_blocks = 2; block_members = np.array(n_blocks * [n_per_block])
n_blocks == 2
SbmNodes == n_blocks * HalfNodes

\* The graphs the samplers are taken to return: the undirected graphs
\* without self-loops that join node 0 to the nodes 1..m, for every m < n.
SampledGraphs(n) ==
    {[q \in Pairs(n) |-> IF (q[1] = 0 /\ q[2] \in 1..m) \/ (q[2] = 0 /\ q[1] \in 1..m)
                         THEN 1 ELSE 0] : m \in 0..(n - 1)}

\* np.sum(abs(A-B)) over the upper triangle only
DifferenceRateOfPairs(A, B, ndim) ==
    [num |-> SumOver([q \in DOMAIN A |-> Abs(A[q] - B[q])],
                     {q \in DOMAIN A : q[1] < q[2]}),
     den |-> ndim * ndim]
\* np.sum(abs(A-B))/(ndim*ndim)
DifferenceRate(A, B, ndim) ==
    [num |-> SumAbsDiff(A, B), den |-> ndim * ndim]

RdpgIdle ==
    [cell |-> "none", raised |-> FALSE, bound |-> {}, X |-> 0, r |-> 0,
     G1 |-> <<>>, G2 |-> <<>>, rho |-> 0, A1 |-> <<>>, A2 |-> <<>>,
     ndim |-> 0, printed |-> [num |-> 0, den |-> 1],
     at |-> 0, g1 |-> <<>>, g2 |-> <<>>, passed |-> <<>>, rlist |-> <<>>,
     x_list |-> <<>>, plotted |-> <<>>]

\* X, Y, r = 0.3 and G1, G2 = rdpg_corr(X, Y, r, ...)
RdpgCell ==
    /\ \E G, H \in SampledGraphs(FirstXRows) :
          rdpg' = [rdpg EXCEPT !.cell = "rdpg_corr",
                               !.raised = FALSE,
                               !.bound = @ \cup {"X", "r", "G1", "G2"},
                               !.X = FirstXRows,
                               !.r = 3,
                               !.G1 = G,
                               !.G2 = H]
    /\ UNCHANGED <<mcc, faq, ase, mase>>

\* The heatmaps of G1 and G2 and their difference rate.
HeatmapCell ==
    /\ IF "G1" \notin rdpg.bound
       THEN rdpg' = [rdpg EXCEPT !.cell = "heatmap", !.raised = TRUE]
       ELSE LET ndim == Size(rdpg.G1) IN
            rdpg' = [rdpg EXCEPT
                !.cell = "heatmap",
                !.raised = FALSE,
                !.bound = @ \cup {"ndim"},
                !.ndim = ndim,
                !.printed = DifferenceRate(rdpg.G1, rdpg.G2, ndim)]
    /\ UNCHANGED <<mcc, faq, ase, mase>>

\* rho = .3, A1, A2 = sbm_corr(...), then ndim=G1.shape[0] and the
\* difference rate of A1 and A2.
SbmCell ==
    /\ \E A, B \in SampledGraphs(SbmNodes) :
          LET sampled == [rdpg EXCEPT !.cell = "sbm_corr",
                                      !.bound = @ \cup {"rho", "A1", "A2"},
                                      !.rho = 3,
                                      !.A1 = A,
                                      !.A2 = B]
          IN IF "G1" \notin rdpg.bound
             THEN rdpg' = [sampled EXCEPT !.raised = TRUE]
             ELSE LET ndim == Size(rdpg.G1) IN
                  rdpg' = [sampled EXCEPT
                      !.raised = FALSE,
                      !.bound = @ \cup {"ndim"},
                      !.ndim = ndim,
                      !.printed = DifferenceRate(A, B, ndim)]
    /\ UNCHANGED <<mcc, faq, ase, mase>>

\* The cells of "Varying the correlation": r = -0.5 (which also draws X),
\* r = 0.3 and r = 0.9.
VaryCorrelations == {-5, 3, 9}

VaryCell(r) ==
    /\ LET draws == r = -5
           assigned == [rdpg EXCEPT
                           !.cell = "vary",
                           !.bound = @ \cup (IF draws THEN {"X", "r"} ELSE {"r"}),
                           !.X = IF draws THEN DirichletXRows ELSE @,
                           !.r = r]
       IN IF "X" \notin assigned.bound
          THEN rdpg' = [assigned EXCEPT !.raised = TRUE]
          ELSE \E G, H \in SampledGraphs(assigned.X) :
                  LET ndim == Size(G) IN
                  rdpg' = [assigned EXCEPT
                      !.raised = FALSE,
                      !.bound = @ \cup {"G1", "G2", "ndim"},
                      !.G1 = G,
                      !.G2 = H,
                      !.ndim = ndim,
                      !.printed = DifferenceRate(G, H, ndim)]
    /\ UNCHANGED <<mcc, faq, ase, mase>>

\* range(from, to)
PyRange(from, to) == [k \in 1..(to - from) |-> from + k - 1]

\* np.arange(start, stop, (stop - start) / num)
LinspaceOpenEnded(start, stop, num) ==
    [k \in 1..num |-> [num |-> start.num * num + (k - 1) * (stop.num - start.num),
                       den |-> start.den * num]]
\* np.linspace(start, stop, num) for start and stop of one denominator:
\* start + k * (stop - start) / (num - 1) for k = 0..num-1.
Linspace(start, stop, num) ==
    [k \in 1..num |-> [num |-> start.num * (num - 1) + (k - 1) * (stop.num - start.num),
                       den |-> start.den * (num - 1)]]

\* for i in range(-5,10) and np.linspace(-0.5,0.9,15)
SweepFrom == -5
SweepTo == 10
LinspaceNum == 15
LinspaceStart == [num |-> -5, den |-> 10]
LinspaceStop == [num |-> 9, den |-> 10]

\* The pairs the sweep is taken to sample: graphs without edges or with the
\* single edge 0-1.
SweepGraphs(n) ==
    {[q \in Pairs(n) |-> IF q \in {<<0, 1>>, <<1, 0>>} THEN e ELSE 0] : e \in {0, 1}}

\* The sweep cell up to its loop: the seed, X, Y and rlist=[].
SweepStart ==
    /\ rdpg.cell = "none"
    /\ rdpg' = [rdpg EXCEPT !.cell = "sweep",
                            !.raised = FALSE,
                            !.bound = @ \cup {"X", "Y", "rlist"},
                            !.X = DirichletXRows,
                            !.at = 1,
                            !.passed = <<>>,
                            !.rlist = <<>>]
    /\ UNCHANGED <<mcc, faq, ase, mase>>

\* One iteration: g1, g2 = rdpg_corr(X, Y, i/10, ...), ndim, rate and
\* rlist.append(rate).  passed records the correlations handed to rdpg_corr.
SweepBody ==
    /\ rdpg.cell = "sweep"
    /\ rdpg.at <= Len(PyRange(SweepFrom, SweepTo))
    /\ LET i == PyRange(SweepFrom, SweepTo)[rdpg.at] IN
       \E G, H \in SweepGraphs(rdpg.X) :
          LET ndim == Size(G) IN
          rdpg' = [rdpg EXCEPT !.at = @ + 1,
                               !.bound = @ \cup {"i", "g1", "g2", "ndim", "rate"},
                               !.g1 = G,
                               !.g2 = H,
                               !.ndim = ndim,
                               !.passed = Append(@, [num |-> i, den |-> 10]),
                               !.rlist = Append(@, DifferenceRate(G, H, ndim))]
    /\ UNCHANGED <<mcc, faq, ase, mase>>

\* The loop is exhausted.
SweepEnd ==
    /\ rdpg.cell = "sweep"
    /\ rdpg.at > Len(PyRange(SweepFrom, SweepTo))
    /\ rdpg' = [rdpg EXCEPT !.cell = "swept"]
    /\ UNCHANGED <<mcc, faq, ase, mase>>

\* x_list = np.linspace(-0.5,0.9,15) and plt.plot(x_list,rlist,'o-'), which
\* raises when the two lists differ in length.
PlotCell ==
    /\ rdpg.cell \in {"none", "swept"}
    /\ LET x_list == Linspace(LinspaceStart, LinspaceStop, LinspaceNum)
           assigned == [rdpg EXCEPT !.cell = "plot",
                                    !.bound = @ \cup {"x_list"},
                                    !.x_list = x_list]
       IN IF "rlist" \notin rdpg.bound \/ Len(rdpg.rlist) # Len(x_list)
          THEN rdpg' = [assigned EXCEPT !.raised = TRUE]
          ELSE rdpg' = [assigned EXCEPT
                  !.raised = FALSE,
                  !.plotted = [k \in DOMAIN x_list |-> <<x_list[k], rdpg.rlist[k]>>]]
    /\ UNCHANGED <<mcc, faq, ase, mase>>


(***************************************************************************)
(* The MASE tutorial (part_000).  A latent position is one of two points,  *)
(* a score is 0 or 1; 2 x 2 matrices are functions on pairs of 0..1 and    *)
(* rows of arrays functions on 0..k-1.                                     *)
(***************************************************************************)
Points == {0, 1}
ScoreValues == {0, 1}

\* The embeddings fit_transform may return: a point for every vertex.
Embeddings == [Nodes(2 * BlockVertices) -> Points]

\* The score matrices of a fit are symmetric 2 x 2 matrices.
SymmetricScores ==
    {R \in [Nodes(2) \X Nodes(2) -> ScoreValues] : R[<<0, 1>>] = R[<<1, 0>>]}

\* np.reshape(R, 4) of a 2 x 2 matrix: its entries row by row.
Flatten(R) == [c \in 0..3 |-> R[<<c \div 2, c % 2>>]]

\* np.delete(row, 0)
DeleteFirst(row, col) ==
    [c \in 0..(Cardinality(DOMAIN row) - 2) |-> row[c + 1]]
\* np.delete(row, col): the row without the entry at index col.
Delete(row, col) ==
    [c \in 0..(Cardinality(DOMAIN row) - 2) |-> IF c < col THEN row[c] ELSE row[c + 1]]

\* [x] * n
Repeat(x, n) == [k \in 1..n |-> x]

\* V[S]: the rows of V at the indices of S, in the order of the indices.
Rows(V, S) ==
    [k \in 1..Cardinality(S) |->
        V[CHOOSE i \in S : Cardinality({j \in S : j < i}) = k - 1]]

\* The label arrays of the vertices, and None (the empty array here).
LabelArrays == [Nodes(2 * BlockVertices) -> {0, 1}]
None == <<>>

\* The points vis_latent scatters in blue and in red.  With predicted it
\* takes them from the global V_hat, otherwise from its argument V.
vis_latent(V, predicted, pred_labels) ==
    IF predicted
    THEN [blue |-> Rows(mase.V_hat, {i \in DOMAIN pred_labels : pred_labels[i] = 0}),
          red |-> Rows(mase.V_hat, {i \in DOMAIN pred_labels : pred_labels[i] = 1})]
    ELSE [blue |-> Rows(V, {i \in DOMAIN V : i < BlockVertices}),
          red |-> Rows(V, {i \in DOMAIN V : i >= BlockVertices})]

MaseIdle ==
    [cell |-> "start", V_hat |-> <<>>, G1 |-> <<>>, G2 |-> <<>>,
     scores_ |-> <<>>, R_hat |-> <<>>, labels |-> <<>>,
     called |-> FALSE,
     call |-> [V |-> <<>>, predicted |-> FALSE, pred_labels |-> None,
               plotted |-> [blue |-> <<>>, red |-> <<>>]]]

\* G1, G2 = sbm(n, B1), sbm(n, B2) and V_hat = embedder.fit_transform([G1, G2])
EmbedCell ==
    /\ mase.cell = "start"
    /\ \E V \in Embeddings :
       \E scores \in [1..2 -> SymmetricScores] :
          mase' = [mase EXCEPT !.cell = "embedded",
                               !.G1 = "SBM 1",
                               !.G2 = "SBM 2",
                               !.V_hat = V,
                               !.scores_ = scores]
    /\ UNCHANGED <<mcc, faq, ase, rdpg>>

\* A call vis_latent(V, title, predicted, pred_labels) once V_hat is bound;
\* call keeps its arguments and the points it plotted.
VisLatentCall ==
    /\ mase.cell \in {"embedded", "many"}
    /\ \E V \in Embeddings, predicted \in BOOLEAN, labels \in LabelArrays :
          LET pred_labels == IF predicted THEN labels ELSE None IN
          mase' = [mase EXCEPT
              !.called = TRUE,
              !.call = [V |-> V, predicted |-> predicted, pred_labels |-> pred_labels,
                        plotted |-> vis_latent(V, predicted, pred_labels)]]
    /\ UNCHANGED <<mcc, faq, ase, rdpg>>

\* G1 and G2 become lists of graphs sampled from the two SBMs (a graph is
\* named by its SBM) and the embedder is fit on G1 + G2: it has one score
\* matrix for every graph of the list, in the order of the list.
ManyGraphsCell ==
    /\ mase.cell \in {"start", "embedded"}
    /\ \E V \in Embeddings :
       \E scores \in [1..(2 * GraphsPerSbm) -> SymmetricScores] :
          mase' = [mase EXCEPT !.cell = "many",
                               !.G1 = Repeat("SBM 1", GraphsPerSbm),
                               !.G2 = Repeat("SBM 2", GraphsPerSbm),
                               !.V_hat = V,
                               !.scores_ = scores]
    /\ UNCHANGED <<mcc, faq, ase, rdpg>>

\* The score matrices are reshaped to rows of 4, column 1 is deleted, the
\* rows of the two populations are concatenated and labelled.
ScoresCell ==
    /\ mase.cell = "many"
    /\ LET first == SubSeq(mase.scores_, 1, GraphsPerSbm)
           last == SubSeq(mase.scores_, GraphsPerSbm + 1, Len(mase.scores_))
           R_1_hat == [k \in DOMAIN first |-> Delete(Flatten(first[k]), 1)]
           R_2_hat == [k \in DOMAIN last |-> Delete(Flatten(last[k]), 1)]
       IN mase' = [mase EXCEPT
             !.cell = "scores",
             !.R_hat = R_1_hat \o R_2_hat,
             !.labels = Repeat("SBM 1", GraphsPerSbm) \o Repeat("SBM 2", GraphsPerSbm)]
    /\ UNCHANGED <<mcc, faq, ase, rdpg>>

NotebooksIdle ==
    /\ mcc = MccIdle
    /\ faq = FaqIdle
    /\ ase = AseIdle
    /\ rdpg = RdpgIdle
    /\ mase = MaseIdle

(***************************************************************************)
(* Initial state and actions of the workflows.                             *)
(***************************************************************************)
InitCI ==
    /\ event = NoEvent
    /\ wfRuns = {}
    /\ job = [j \in SingleJobs |-> "queued"]
    /\ mjob = [c \in Matrix |-> "queued"]
    /\ typeChecked = {}
    /\ artifacts = {}
    /\ pjob = "queued"
    /\ ppc = 1
    /\ steps = [i \in 1..LastStep |-> "pending"]
    /\ env = {}
    /\ dist = {}
    /\ pypi = {}
    /\ site = FALSE
    /\ pages = {}
    /\ releases = {}

\* An event arrives and GitHub starts the workflows whose triggers match.
Trigger ==
    /\ event = NoEvent
    /\ \E e \in Events :
          /\ event' = e
          /\ wfRuns' = Triggered(e)
    /\ UNCHANGED <<job, mjob, typeChecked, artifacts, pjob, ppc, steps,
                   env, dist, pypi, site, pages, releases>>

\* One of the four single jobs of the build workflow runs.
RunJob(j) ==
    /\ wfRuns # {}
    /\ job[j] = "queued"
    /\ \E failAt \in 0..Len(JobSteps(j)) :
          LET r == RunSteps(JobSteps(j), failAt) IN
          /\ job' = [job EXCEPT ![j] = r.conclusion]
          /\ artifacts' = artifacts \cup SingleJobUploads(j, Succeeded(r))
    /\ UNCHANGED <<event, wfRuns, mjob, typeChecked, pjob, ppc, steps,
                   env, dist, pypi, site, pages, releases>>

\* One combination of the unit-and-doc-test matrix runs.  With fail-fast a
\* failed combination cancels the combinations still queued.
MatrixJob(c) ==
    /\ wfRuns # {}
    /\ mjob[c] = "queued"
    /\ IF FailFast /\ \E d \in Matrix : mjob[d] = "failure"
       THEN /\ mjob' = [mjob EXCEPT ![c] = "cancelled"]
            /\ UNCHANGED <<typeChecked, artifacts>>
       ELSE \E o \in UnitAndDocTestOutcomes :
               /\ o.conclusion = "failure" =>
                     Cardinality({d \in Matrix : mjob[d] = "failure"})
                         < MaxFailedCombos
               /\ mjob' = [mjob EXCEPT ![c] = o.conclusion]
               /\ typeChecked' = IF o.typeChecked THEN typeChecked \cup {c}
                                 ELSE typeChecked
               /\ artifacts' = artifacts \cup MatrixJobUploads(c, o.uploaded)
    /\ UNCHANGED <<event, wfRuns, job, pjob, ppc, steps,
                   env, dist, pypi, site, pages, releases>>

\* The unit-and-doc-test job as a whole: all its combinations run, the ones
\* in failed with the failing outcome drawn for each.
UnitAndDocTest ==
    /\ wfRuns # {}
    /\ \A c \in Matrix : mjob[c] = "queued"
    /\ \E failed \in {f \in SUBSET Matrix : Cardinality(f) <= MaxFailedCombos} :
       \E bad \in [failed -> {o \in UnitAndDocTestOutcomes :
                                  o.conclusion = "failure"}] :
       \E good \in {o \in UnitAndDocTestOutcomes : o.conclusion = "success"} :
          LET out(c) == IF c \in failed THEN bad[c] ELSE good IN
          /\ mjob' = [c \in Matrix |-> out(c).conclusion]
          /\ typeChecked' = {c \in Matrix : out(c).typeChecked}
          /\ artifacts' = artifacts \cup
                UNION {MatrixJobUploads(c, out(c).uploaded) : c \in Matrix}
    /\ UNCHANGED <<event, wfRuns, job, pjob, ppc, steps,
                   env, dist, pypi, site, pages, releases>>

NeedsMet ==
    \A n \in PublishNeeds : BuildConclusion(job, mjob) = "success"
NeedsConcluded ==
    \A n \in PublishNeeds : BuildConclusion(job, mjob) # "pending"

\* The publish job starts once the jobs it needs have concluded; it is
\* skipped when one of them did not succeed or its if: condition is false.
PublishStart ==
    /\ "graspologic Publish" \in wfRuns
    /\ pjob = "queued"
    /\ NeedsConcluded
    /\ pjob' = IF NeedsMet /\ PublishIf(Ref(event))
               THEN "in_progress" ELSE "skipped"
    /\ UNCHANGED <<event, wfRuns, job, mjob, typeChecked, artifacts, ppc, steps,
                   env, dist, pypi, site, pages, releases>>

\* The next step of the publish job: skipped when its condition is false,
\* otherwise run; a failed step ends the job.
\* Every step with continue-on-error: true.
PublishStepContinueOnError ==
    /\ pjob = "in_progress"
    /\ LET s == PublishSteps[ppc] IN
       IF ~StepIf(s, Ref(event))
       THEN /\ steps' = [steps EXCEPT ![ppc] = "skipped"]
            /\ NoStepEffect
       ELSE \E ok \in BOOLEAN :
               /\ ok => StepCanSucceed(s)
               /\ IF ok
                  THEN /\ steps' = [steps EXCEPT ![ppc] = "success"]
                       /\ StepEffect(s)
                  ELSE /\ steps' = [steps EXCEPT ![ppc] = "failure"]
                       /\ NoStepEffect
    /\ ppc' = ppc + 1
    /\ pjob' = IF ppc = LastStep THEN "success" ELSE pjob
    /\ UNCHANGED <<event, wfRuns, job, mjob, typeChecked, artifacts>>

PublishStep ==
    /\ pjob = "in_progress"
    /\ LET s == PublishSteps[ppc] IN
       IF ~StepIf(s, Ref(event))
       THEN /\ steps' = [steps EXCEPT ![ppc] = "skipped"]
            /\ ppc' = ppc + 1
            /\ pjob' = IF ppc = LastStep THEN "success" ELSE pjob
            /\ NoStepEffect
       ELSE \E ok \in BOOLEAN :
               /\ ok => StepCanSucceed(s)
               /\ IF ok
                  THEN /\ steps' = [steps EXCEPT ![ppc] = "success"]
                       /\ ppc' = ppc + 1
                       /\ pjob' = IF ppc = LastStep THEN "success" ELSE pjob
                       /\ StepEffect(s)
                  ELSE /\ steps' = [steps EXCEPT ![ppc] = "failure"]
                       /\ pjob' = "failure"
                       /\ ppc' = ppc
                       /\ NoStepEffect
    /\ UNCHANGED <<event, wfRuns, job, mjob, typeChecked, artifacts>>

vars == <<ciVars, nbVars>>

Init == InitCI /\ NotebooksIdle

Next ==
    \/ Trigger /\ UNCHANGED nbVars
    \/ \E j \in SingleJobs : RunJob(j) /\ UNCHANGED nbVars
    \/ UnitAndDocTest /\ UNCHANGED nbVars
    \/ PublishStart /\ UNCHANGED nbVars
    \/ PublishStep /\ UNCHANGED nbVars

Spec == Init /\ [][Next]_vars

(***************************************************************************)
(* The unit-and-doc-test matrix, one combination at a time: the state of a *)
(* build run whose four single jobs have succeeded, from which the twelve  *)
(* combinations run in any order.                                          *)
(***************************************************************************)
InitMatrix ==
    /\ NotebooksIdle
    /\ event \in {e \in Events : e.kind = "pull_request"
                                  /\ e.paths = {"setup.py"}}
    /\ wfRuns = Triggered(event)
    /\ job = [j \in SingleJobs |-> "success"]
    /\ mjob = [c \in Matrix |-> "queued"]
    /\ typeChecked = {}
    /\ artifacts = SingleJobUploads("build-reference-documentation",
                                    BuildReferenceDocumentationSteps)
    /\ pjob = "queued"
    /\ ppc = 1
    /\ steps = [i \in 1..LastStep |-> "pending"]
    /\ env = {}
    /\ dist = {}
    /\ pypi = {}
    /\ site = FALSE
    /\ pages = {}
    /\ releases = {}

NextMatrix == \E c \in Matrix : MatrixJob(c) /\ UNCHANGED nbVars

SpecMatrix == InitMatrix /\ [][NextMatrix]_vars

(***************************************************************************)
(* The notebooks' specifications: no workflow runs.                        *)
(***************************************************************************)
InitHolm == InitCI /\ NotebooksIdle
NextHolm ==
    \/ EdgeTestsCell /\ UNCHANGED ciVars
    \/ HolmCell /\ UNCHANGED ciVars
SpecHolm == InitHolm /\ [][NextHolm]_vars

InitMatch == InitCI /\ NotebooksIdle
NextMatch ==
    \/ PaddedMatchCell /\ UNCHANGED ciVars
    \/ MatchRatioCell /\ UNCHANGED ciVars
SpecMatch == InitMatch /\ [][NextMatch]_vars

InitFaq == InitCI /\ NotebooksIdle
NextFaq ==
    \/ ShuffleCell /\ UNCHANGED ciVars
    \/ GraphMatchCell /\ UNCHANGED ciVars
SpecFaq == InitFaq /\ [][NextFaq]_vars

InitAse == InitCI /\ NotebooksIdle
NextAse ==
    \/ KMeansStep /\ UNCHANGED ciVars
    \/ ErrorRateStep /\ UNCHANGED ciVars
SpecAse == InitAse /\ [][NextAse]_vars

InitRdpg == InitCI /\ NotebooksIdle
NextRdpg ==
    \/ RdpgCell /\ UNCHANGED ciVars
    \/ HeatmapCell /\ UNCHANGED ciVars
    \/ SbmCell /\ UNCHANGED ciVars
    \/ \E r \in VaryCorrelations : VaryCell(r) /\ UNCHANGED ciVars
SpecRdpg == InitRdpg /\ [][NextRdpg]_vars

InitEdges == InitCI /\ NotebooksIdle
NextEdges ==
    \/ IndicesCell /\ UNCHANGED ciVars
    \/ EdgeLoopStart /\ UNCHANGED ciVars
    \/ EdgeLoopBody /\ UNCHANGED ciVars
    \/ EdgeLoopEnd /\ UNCHANGED ciVars
SpecEdges == InitEdges /\ [][NextEdges]_vars

InitSeeds == InitCI /\ NotebooksIdle
NextSeeds == SeedsCell /\ UNCHANGED ciVars
SpecSeeds == InitSeeds /\ [][NextSeeds]_vars

InitLookup == InitCI /\ NotebooksIdle
NextLookup == LookupCell /\ UNCHANGED ciVars
SpecLookup == InitLookup /\ [][NextLookup]_vars

InitScores == InitCI /\ NotebooksIdle
NextScores ==
    \/ ManyGraphsCell /\ UNCHANGED ciVars
    \/ ScoresCell /\ UNCHANGED ciVars
SpecScores == InitScores /\ [][NextScores]_vars

InitSweep == InitCI /\ NotebooksIdle
NextSweep ==
    \/ SweepStart /\ UNCHANGED ciVars
    \/ SweepBody /\ UNCHANGED ciVars
    \/ SweepEnd /\ UNCHANGED ciVars
    \/ PlotCell /\ UNCHANGED ciVars
SpecSweep == InitSweep /\ [][NextSweep]_vars

InitVis == InitCI /\ NotebooksIdle
NextVis ==
    \/ EmbedCell /\ UNCHANGED ciVars
    \/ VisLatentCall /\ UNCHANGED ciVars
    \/ ManyGraphsCell /\ UNCHANGED ciVars
SpecVis == InitVis /\ [][NextVis]_vars

(***************************************************************************)
(* Properties of the workflows.                                            *)
(***************************************************************************)
StepIndex(s) == CHOOSE i \in 1..LastStep : PublishSteps[i] = s
StepStatus(s) == steps[StepIndex(s)]
StepExecuted(s) == StepStatus(s) \in {"success", "failure"}

AllBuildJobsSucceeded ==
    /\ \A j \in SingleJobs : job[j] = "success"
    /\ \A c \in Matrix : mjob[c] = "success"

SomeBuildJobFailed ==
    \/ \E j \in SingleJobs : job[j] = "failure"
    \/ \E c \in Matrix : mjob[c] \in {"failure", "cancelled"}

PublishJobStarted ==
    \/ pjob \in {"in_progress", "success", "failure"}
    \/ \E i \in 1..LastStep : steps[i] # "pending"

\* C1: no step of the publish job (package build, twine upload, documentation
\* publication, tag/release creation) executes, and nothing is published,
\* unless every single job and every matrix combination of the called build
\* workflow has succeeded; once any of them has failed the publish job has
\* not started and never starts.
C1_PublishNeedsBuild ==
    /\ PublishJobStarted => AllBuildJobsSucceeded
    /\ (pypi # {} \/ pages # {} \/ releases # {} \/ dist # {})
          => AllBuildJobsSucceeded
    /\ SomeBuildJobFailed =>
          /\ pjob \in {"queued", "skipped"}
          /\ \A i \in 1..LastStep : steps[i] = "pending"

\* A main run in which the whole publish job has succeeded.
C1_Witness ==
    /\ pjob = "success"
    /\ StepStatus("publish-with-twine") = "success"
    /\ StepStatus("create-tag-and-release") = "success"
    /\ AllBuildJobsSucceeded

IsPush(branches) == event.kind = "push" /\ event.branch \in branches

ChangesOtherPath ==
    event.paths \ {".all-contributorsrc", "CONTRIBUTORS.md"} # {}

PublishJobNeverRan ==
    /\ pjob = "queued"
    /\ \A i \in 1..LastStep : steps[i] = "pending"

\* C2 (as claimed): the publish workflow is triggered only by a push to main
\* or dev that changes a path other than the two ignored ones; every push to
\* main or dev runs the build jobs exactly once; every push to another branch
\* runs the build jobs and never the publish job.
C2_Original ==
    event # NoEvent =>
       /\ "graspologic Publish" \in wfRuns =>
             IsPush({"main", "dev"}) /\ ChangesOtherPath
       /\ IsPush({"main", "dev"}) => BuildJobRuns(wfRuns) = 1
       /\ IsPush(Branches \ {"main", "dev"}) =>
             /\ BuildJobRuns(wfRuns) >= 1
             /\ PublishJobNeverRan

\* C2 (amended): the publish workflow is triggered only by a push to main or
\* dev that changes a path other than the two ignored ones; such a push
\* triggers the publish workflow alone, so the build jobs run exactly once,
\* through its call; a push to another branch that changes such a path
\* triggers the build workflow alone and never the publish job; a push that
\* changes only ignored paths triggers neither workflow.
C2_PushTriggers ==
    event # NoEvent =>
       /\ "graspologic Publish" \in wfRuns =>
             IsPush({"main", "dev"}) /\ ChangesOtherPath
       /\ IsPush({"main", "dev"}) /\ ChangesOtherPath =>
             /\ wfRuns = {"graspologic Publish"}
             /\ BuildJobRuns(wfRuns) = 1
       /\ IsPush(Branches \ {"main", "dev"}) /\ ChangesOtherPath =>
             /\ wfRuns = {"graspologic Build"}
             /\ BuildJobRuns(wfRuns) = 1
             /\ PublishJobNeverRan
       /\ IsPush(Branches) /\ ~ChangesOtherPath =>
             /\ wfRuns = {}
             /\ PublishJobNeverRan
             /\ \A j \in SingleJobs : job[j] = "queued"

\* A push to dev touching an ignored and another path, built once and published.
C2_Witness ==
    /\ IsPush({"dev"})
    /\ event.paths = {"CONTRIBUTORS.md", "setup.py"}
    /\ wfRuns = {"graspologic Publish"}
    /\ AllBuildJobsSucceeded
    /\ pjob = "success"

PackagingStepsRun ==
    {s \in {"build-release", "build-prerelease"} : StepStatus(s) = "success"}

\* C3 (as claimed): in every run in which the publish job executes, the twine
\* upload is attempted, after exactly one packaging step has run.
C3_Original ==
    pjob \in {"success", "failure"} =>
       /\ StepExecuted("publish-with-twine")
       /\ Cardinality(PackagingStepsRun) = 1

\* C3 (amended): whenever the publish job reaches 'Publish with twine' (no
\* earlier step having failed), exactly one packaging step has run before it:
\* the release build iff the ref is refs/heads/main, the prerelease build iff
\* it is refs/heads/dev; the twine step is never skipped, so it is attempted
\* in every run of the job that gets past the packaging steps, and it uploads
\* the one distribution built.
C3_PackagingBeforeTwine ==
    /\ StepStatus("publish-with-twine") # "skipped"
    /\ (pjob \in {"in_progress", "success"}
           /\ ppc > StepIndex("publish-with-twine"))
          => StepStatus("publish-with-twine") = "success"
    /\ StepExecuted("publish-with-twine") =>
          /\ Cardinality(PackagingStepsRun) = 1
          /\ StepStatus("build-release") = "success"
                <=> Ref(event) = "refs/heads/main"
          /\ StepStatus("build-prerelease") = "success"
                <=> Ref(event) = "refs/heads/dev"
          /\ StepStatus("build-release") \in {"success", "skipped"}
          /\ StepStatus("build-prerelease") \in {"success", "skipped"}
    /\ pypi # {} =>
          pypi = (IF Ref(event) = "refs/heads/main"
                  THEN {"<version>"} ELSE {"<version>.dev<run_id>"})

\* A dev run whose twine upload has been attempted.
C3_Witness ==
    /\ Ref(event) = "refs/heads/dev"
    /\ StepStatus("publish-with-twine") = "success"
    /\ StepStatus("build-prerelease") = "success"
    /\ StepStatus("build-release") = "skipped"

AllowedDestinations(ref) ==
    CASE ref = "refs/heads/main" -> {"<version>", "latest"}
      [] ref = "refs/heads/dev" -> {"pre-release"}
      [] OTHER -> {}

\* C4: the documentation destinations and the release are determined by the
\* branch: a dev run publishes only to pre-release, a main run only to the
\* directory named by the package version and to latest (both, once the job
\* has succeeded) and never to pre-release; the tag v<version> and the GitHub
\* release are created only in main runs.
C4_DestinationsByBranch ==
    /\ pages \subseteq AllowedDestinations(Ref(event))
    /\ pjob = "success" => pages = AllowedDestinations(Ref(event))
    /\ releases # {} =>
          /\ Ref(event) = "refs/heads/main"
          /\ releases = {"v<version>"}
    /\ StepExecuted("create-tag-and-release") => Ref(event) = "refs/heads/main"
    /\ (pjob = "success" /\ Ref(event) = "refs/heads/main")
          => releases = {"v<version>"}
    /\ Ref(event) = "refs/heads/dev" => releases = {}

\* A main run that has published both directories and created the release.
C4_Witness ==
    /\ Ref(event) = "refs/heads/main"
    /\ pjob = "success"
    /\ pages = {"<version>", "latest"}
    /\ releases = {"v<version>"}

\* C5: the unit-and-doc-test job has the 12 combinations of the three
\* operating systems and four Python versions; no combination is cancelled or
\* held back because another one failed, so when the matrix has concluded
\* each of the 12 has run to success or failure; the build workflow succeeds
\* only if all 12 succeeded; and a combination that succeeded has run the
\* unit tests and, after them, the mypy type check.
C5_MatrixRunsAll ==
    /\ DOMAIN mjob = OperatingSystems \X PythonVersions
    /\ Cardinality(DOMAIN mjob) = 12
    /\ \A c \in Matrix : mjob[c] \in {"queued", "success", "failure"}
    /\ MatrixConclusion(mjob) # "pending" =>
          \A c \in Matrix : mjob[c] \in {"success", "failure"}
    /\ BuildConclusion(job, mjob) = "success" =>
          \A c \in Matrix : mjob[c] = "success"
    /\ \A c \in Matrix : mjob[c] = "success" => c \in typeChecked

\* A combination has failed and another one has run to success after it.
C5_Witness ==
    /\ \E c \in Matrix : mjob[c] = "failure"
    /\ \E c \in Matrix : mjob[c] = "success" /\ c \in typeChecked
    /\ MatrixConclusion(mjob) = "failure"

(***************************************************************************)
(* Properties of the notebooks.                                            *)
(***************************************************************************)
Min(a, b) == IF a < b THEN a ELSE b
Max(a, b) == IF a > b THEN a ELSE b

\* Rows of the table with a p-value smaller than that of row k.
SmallerPvals(rows, k) == {i \in DOMAIN rows : rows[i].pval < rows[k].pval}
TiedPvals(rows, k) == {i \in DOMAIN rows : i # k /\ rows[i].pval = rows[k].pval}

EdgeDisagreements(A, B) ==
    Cardinality({q \in DOMAIN A : q[1] < q[2] /\ A[q] # B[q]})

\* C7 as stated: the number printed as "Number of edge disagreements" is
\* the number of node pairs adjacent in exactly one of G1 and G2.
C7_PrintedIsEdgeDisagreements ==
    faq.cell # "start" =>
        faq.printed[Len(faq.printed)] = EdgeDisagreements(faq.G1, faq.G2)

Inverse(s) == [i \in DOMAIN s |-> CHOOSE k \in DOMAIN s : s[k] = i]

Chained(G, p) == ColIndex(RowIndex(G, p), p)

\* C8: with G2 = G1[ix_(s, s)], permuting G2 by the inverse p of s as
\* G2[p][:, p] gives G1 entry for entry, with zero disagreements; for every
\* permutation p the chained indexing G2[p][:, p] equals G2[ix_(p, p)] and
\* is again symmetric and without self-loops.
C8_SolutionExists ==
    /\ faq.cell = "shuffled" =>
          LET p == Inverse(faq.node_shuffle_input)
          IN /\ faq.G2 = Ix(faq.G1, faq.node_shuffle_input,
                            faq.node_shuffle_input)
             /\ p \in NodePermutations(Size(faq.G1))
             /\ Chained(faq.G2, p) = faq.G1
             /\ SumAbsDiff(faq.G1, Chained(faq.G2, p)) = 0
    /\ faq.cell # "start" =>
          /\ faq.G2 \in Graphs(Size(faq.G1))
          /\ \A p \in NodePermutations(Size(faq.G1)) :
                /\ Chained(faq.G2, p) = Ix(faq.G2, p, p)
                /\ Chained(faq.G2, p) \in Graphs(Size(faq.G1))

\* A shuffle that changed the graph was undone by the inverse permutation.
C8_Witness ==
    /\ faq.cell = "matched"
    /\ faq.perm_inds = Inverse(faq.node_shuffle_input)
    /\ \E i \in DOMAIN faq.perm_inds : faq.perm_inds[i] # i
    /\ faq.G2 = faq.G1
    /\ faq.printed[1] > 0
    /\ faq.printed[2] = 0

\* Matched pairs in which the node of G2 is paired with its counterpart.
CorrectPairs(indices1, indices2) ==
    {i \in DOMAIN indices2 : indices1[i] = keep_indices[indices2[i]]}

\* C9 as stated: compute_match_ratio returns the fraction of the matched
\* pairs (indices1[i], indices2[i]) with indices1[i] =
\* keep_indices[indices2[i]].
C9_MatchRatioIsAccuracy ==
    mcc.cell = "printed" =>
        LET r == mcc.printed[1]
        IN r.num * G2Size
             = Cardinality(CorrectPairs(mcc.indices1, mcc.indices2)) * r.den

\* Nodes whose k-means label is their true label.
Agreeing(labels) == Cardinality({i \in DOMAIN labels : labels[i] = labels_sbm[i]})

DifferingEntries(A, B) == Cardinality({q \in DOMAIN A : A[q] # B[q]})

\* The matrices compared by the cell executed last.
Compared ==
    IF rdpg.cell = "sbm_corr" THEN <<rdpg.A1, rdpg.A2>> ELSE <<rdpg.G1, rdpg.G2>>

PrintedRate == rdpg.cell \in {"heatmap", "sbm_corr", "vary"} /\ ~rdpg.raised

\* C11: whenever a cell has printed a difference rate, in whatever order
\* the cells were executed, the rate is the number of entries at which the
\* two compared matrices differ divided by n * n, n their node count; it
\* lies in [0, 1] and is 0 exactly when the two matrices are equal.
C11_DifferenceRate ==
    PrintedRate =>
        LET A == Compared[1]
            B == Compared[2]
            n == Size(A)
        IN /\ Size(B) = n
           /\ rdpg.printed.num * (n * n) = DifferingEntries(A, B) * rdpg.printed.den
           /\ rdpg.printed.den > 0
           /\ 0 <= rdpg.printed.num
           /\ rdpg.printed.num <= rdpg.printed.den
           /\ (rdpg.printed.num = 0) <=> (A = B)

\* The sbm_corr cell printed a nonzero rate with ndim taken from a G1
\* that a cell of "Varying the correlation" had sampled.
C11_Witness ==
    /\ rdpg.cell = "sbm_corr"
    /\ ~rdpg.raised
    /\ rdpg.r = 9
    /\ rdpg.G1 # rdpg.A1
    /\ rdpg.A1 # rdpg.A2
    /\ rdpg.printed.num > 0

\* C12 as stated: the first RDPG pair and the SBM pair are sampled with
\* correlation 0.5.
C12_SampledWithHalf ==
    /\ rdpg.cell = "rdpg_corr" => rdpg.r = 5
    /\ rdpg.cell = "sbm_corr" => rdpg.rho = 5

\* The vertex pairs of the records of a list, in the order of the list.
RecordedPairs(records) == [k \in DOMAIN records |-> <<records[k].ROI_1, records[k].ROI_2>>]

\* C13: when the edge-testing cell has been executed for the first time
\* after indices was created, it ended without an exception whatever tests
\* raised ValueError, and edge_pvals holds one record per vertex pair i < j
\* of the upper triangle, each pair once: n * (n - 1) / 2 records (54,946
\* for n = 332); a record is the returned statistic and p-value, or NaN and
\* p-value 1.
C13_OneRecordPerPair ==
    /\ 332 * (332 - 1) = 2 * 54946
    /\ (mcc.cell = "tested" /\ mcc.edge_runs = 1) =>
          /\ ~mcc.raised
          /\ 2 * Len(mcc.edge_pvals) = n_vertices * (n_vertices - 1)
          /\ RecordedPairs(mcc.edge_pvals) = TriuIndices(n_vertices)
          /\ \A q \in {o \in Nodes(n_vertices) \X Nodes(n_vertices) : o[1] < o[2]} :
                Cardinality({k \in DOMAIN mcc.edge_pvals :
                                RecordedPairs(mcc.edge_pvals)[k] = q}) = 1
          /\ \A k \in DOMAIN mcc.edge_pvals :
                mcc.edge_pvals[k].stat = "nan" => mcc.edge_pvals[k].pval = PUnits

\* The loop ended after a first test that raised ValueError and a later
\* test that returned.
C13_Witness ==
    /\ mcc.cell = "tested"
    /\ mcc.edge_runs = 1
    /\ Len(mcc.edge_pvals) = (n_vertices * (n_vertices - 1)) \div 2
    /\ mcc.edge_pvals[1].stat = "nan"
    /\ \E k \in DOMAIN mcc.edge_pvals : mcc.edge_pvals[k].stat = "stat"

DocsPublicationSteps == {"publish-docs-dev", "publish-docs-main", "publish-docs-latest"}

DocumentationSiteUploaded == \E a \in artifacts : a.name = "documentation-site"

\* C14: the artifact documentation-site exists in a run only when
\* build-reference-documentation has succeeded in it (sphinx-build
\* included) and holds docs/_build/html; the publish job downloads it only
\* after it was uploaded in the same run; the download is listed and
\* succeeds before every documentation publication step, and all of these
\* publish the directory the download wrote, docs/documentation-site.
C14_DocsFromSameRun ==
    /\ \A a \in artifacts :
          a.name = "documentation-site" =>
              /\ job["build-reference-documentation"] = "success"
              /\ a.file = <<"docs/_build/html">>
    /\ StepStatus("download-documentation") = "success" =>
          /\ DocumentationSiteUploaded
          /\ "graspologic Publish" \in wfRuns
          /\ BuildConclusion(job, mjob) = "success"
    /\ site <=> StepStatus("download-documentation") = "success"
    /\ \A s \in DocsPublicationSteps :
          /\ StepIndex("download-documentation") < StepIndex(s)
          /\ PublishDir(s) = DownloadPath
          /\ StepExecuted(s) => StepStatus("download-documentation") = "success"
          /\ StepStatus(s) = "success" => site
    /\ pages # {} => site /\ DocumentationSiteUploaded

\* On main both documentation publications of the run have succeeded.
C14_Witness ==
    /\ Ref(event) = "refs/heads/main"
    /\ DocumentationSiteUploaded
    /\ StepStatus("download-documentation") = "success"
    /\ StepStatus("publish-docs-main") = "success"
    /\ StepStatus("publish-docs-latest") = "success"
    /\ pages = {"<version>", "latest"}

\* C15: the steps of the publish job are taken in their listed order and no
\* step is taken after a failed one; when the twine upload has failed no
\* documentation is published and no tag or release exists; when a tag and
\* release exist, the twine upload and the publications of the versioned
\* and of the latest documentation have succeeded in the run.
C15_FailureStopsJob ==
    /\ \A i, k \in 1..LastStep :
          i < k =>
              /\ steps[k] # "pending" => steps[i] # "pending"
              /\ steps[i] = "failure" => steps[k] = "pending"
    /\ StepStatus("publish-with-twine") = "failure" =>
          /\ pages = {}
          /\ releases = {}
          /\ pjob = "failure"
    /\ releases # {} =>
          /\ StepStatus("create-tag-and-release") = "success"
          /\ StepStatus("publish-with-twine") = "success"
          /\ pypi # {}
          /\ StepStatus("publish-docs-main") = "success"
          /\ StepStatus("publish-docs-latest") = "success"
          /\ {VersionDir, "latest"} \subseteq pages

\* The twine upload of a run on dev has failed.
C15_Witness ==
    /\ Ref(event) = "refs/heads/dev"
    /\ StepStatus("build-prerelease") = "success"
    /\ StepStatus("publish-with-twine") = "failure"
    /\ pjob = "failure"

\* C16 as stated: the correction cell preserves the order of the raw
\* p-values (pval_i <= pval_j implies holm_pval_i <= holm_pval_j), and
\* when any row is significant the first row, the one with the smallest
\* raw p-value, is significant.
C16_OrderPreserved ==
    mcc.cell = "corrected" =>
        LET rows == mcc.edge_pvals IN
        /\ \A i, k \in DOMAIN rows :
              rows[i].pval <= rows[k].pval => rows[i].holm_pval <= rows[k].holm_pval
        /\ (\E k \in DOMAIN rows : rows[k].significant) => rows[1].significant

\* C18: after the correction cell every row has pval <= holm_pval <= 1; it
\* is marked significant exactly when holm_pval < 0.05; a significant row
\* has pval < 0.05, and a row with pval 1 (a test that raised ValueError)
\* is not significant.
C18_HolmBounds ==
    mcc.cell = "corrected" =>
        \A k \in DOMAIN mcc.edge_pvals :
            LET row == mcc.edge_pvals[k] IN
            /\ 0 <= row.pval
            /\ row.pval <= row.holm_pval
            /\ row.holm_pval <= PUnits
            /\ row.significant <=> (row.holm_pval * AlphaDen < AlphaNum * PUnits)
            /\ row.significant => (row.pval * AlphaDen < AlphaNum * PUnits)
            /\ row.pval = PUnits => ~row.significant

\* A table with a significant row of nonzero p-value, a row whose
\* corrected value was replaced by 1, and a row of p-value 1.
C18_Witness ==
    /\ mcc.cell = "corrected"
    /\ \E k \in DOMAIN mcc.edge_pvals :
          mcc.edge_pvals[k].significant /\ mcc.edge_pvals[k].pval > 0
    /\ \E k \in DOMAIN mcc.edge_pvals :
          /\ mcc.edge_pvals[k].pval * mcc.pval_rank[k] > PUnits
          /\ mcc.edge_pvals[k].holm_pval = PUnits
    /\ \E k \in DOMAIN mcc.edge_pvals :
          mcc.edge_pvals[k].pval = PUnits /\ ~mcc.edge_pvals[k].significant

\* The files of the artifact named dependencies.
Dependencies == {a \in artifacts : a.name = "dependencies"}

DocumentationDependencies ==
    SingleJobUploads("build-reference-documentation", <<"upload-dependencies">>)

\* C17: the files that build-reference-documentation and the 12 matrix
\* combinations upload to the artifact dependencies have pairwise distinct
\* names; under every interleaving of the combinations the artifact holds
\* exactly the file of the documentation job (when it has uploaded) and
\* one file for each combination that has succeeded, none overwritten.
C17_DistinctDependencyFiles ==
    /\ \A c, d \in Matrix :
          MatrixJobUploads(c, TRUE) = MatrixJobUploads(d, TRUE) => c = d
    /\ \A c \in Matrix :
          /\ Cardinality(MatrixJobUploads(c, TRUE)) = 1
          /\ MatrixJobUploads(c, TRUE) \cap DocumentationDependencies = {}
          /\ mjob[c] = "success" <=> MatrixJobUploads(c, TRUE) \subseteq artifacts
    /\ Cardinality(Dependencies)
         = Cardinality({c \in Matrix : mjob[c] = "success"})
             + Cardinality(Dependencies \cap DocumentationDependencies)
    /\ job["build-reference-documentation"] = "success" =>
          DocumentationDependencies \subseteq artifacts

\* All combinations but one have uploaded beside the documentation job.
C17_Witness ==
    /\ DocumentationDependencies \subseteq artifacts
    /\ Cardinality({c \in Matrix : mjob[c] = "success"}) = Cardinality(Matrix) - 1
    /\ \E c \in Matrix : mjob[c] = "failure"
    /\ Cardinality(Dependencies) = Cardinality(Matrix)

\* C19: every G2 node x in 0..299 has the seed int(x / 75) * 25 + x =
\* keep_indices[x], the G1 node it was taken from, so every row of
\* partial_match pairs a G2 node with its G1 node.
C19_SeedsAreTrue ==
    /\ DOMAIN KeepIndicesOfG2 = 0..299
    /\ KeepIndicesOfG2 = KeepIndices(100, 75, 4)
    /\ \A x \in 0..299 : Seed1(x) = KeepIndicesOfG2[x]
    /\ mcc.cell = "seeded" =>
          \A i \in DOMAIN mcc.partial_match :
              /\ mcc.partial_match[i] = <<mcc.seed1[i], mcc.seed2[i]>>
              /\ mcc.partial_match[i][1] = KeepIndicesOfG2[mcc.partial_match[i][2]]

\* A node of the last block of G2 was drawn as seed.
C19_Witness ==
    /\ mcc.cell = "seeded"
    /\ mcc.seed2[1] = 299
    /\ mcc.seed1[1] = 374
    /\ mcc.partial_match[1] = <<374, 299>>

\* C20: lookup_roi_name maps a vertex index in 0..331 to the ROI number
\* (index mod 166) + 1, in 1..166, with hemisphere L for 0..165 and R for
\* 166..331; distinct indices get distinct pairs; the indices 121 - 1 and
\* 121 + 166 - 1 of the corpus callosum plots get ROI 121, L and R.
C20_LookupRoiName ==
    /\ mcc.cell = "named" =>
          /\ mcc.roi_name.ROI = (mcc.roi_index % 166) + 1
          /\ mcc.roi_name.ROI \in 1..166
          /\ mcc.roi_name.hemisphere = IF mcc.roi_index <= 165 THEN "L" ELSE "R"
          /\ \A other \in 0..331 :
                lookup_roi_name(other) = mcc.roi_name => other = mcc.roi_index
    /\ lookup_roi_name(121 - 1) = [ROI |-> 121, hemisphere |-> "L"]
    /\ lookup_roi_name(121 + 166 - 1) = [ROI |-> 121, hemisphere |-> "R"]

\* The index of the right corpus callosum was looked up.
C20_Witness ==
    /\ mcc.cell = "named"
    /\ mcc.roi_index = 121 + 166 - 1
    /\ mcc.roi_name = [ROI |-> 121, hemisphere |-> "R"]

\* The error vector the loop body computes from a labeling.
ErrorOf(labels) ==
    LET differs == Error(labels)
    IN IF IsInverse(differs)
       THEN [i \in DOMAIN differs |-> differs[i] = FALSE]
       ELSE differs

\* 1 - labels_kmeans
Swapped(labels) == [i \in DOMAIN labels |-> 1 - labels[i]]

ScoreVector(R) == [c \in 0..2 |-> CASE c = 0 -> R[<<0, 0>>]
                                      [] c = 1 -> R[<<1, 0>>]
                                      [] c = 2 -> R[<<1, 1>>]]

\* C22: flattening a symmetric 2 x 2 score matrix and deleting column 1
\* leaves (R[0,0], R[1,0], R[1,1]), from which the matrix is recovered
\* (different symmetric matrices give different rows); row k of R_hat is
\* that vector of the score matrix of the k-th embedded graph, the first
\* rows belonging to the graphs of the first SBM and the last to those of
\* the second, as the labels list says.
C22_ScoreRows ==
    /\ \A A, B \in SymmetricScores :
          /\ Delete(Flatten(A), 1) = ScoreVector(A)
          /\ Delete(Flatten(A), 1) = Delete(Flatten(B), 1) => A = B
    /\ mase.cell = "scores" =>
          LET graphs == mase.G1 \o mase.G2 IN
          /\ Len(mase.R_hat) = 2 * GraphsPerSbm
          /\ Len(mase.labels) = Len(mase.R_hat)
          /\ \A k \in DOMAIN mase.R_hat :
                /\ mase.R_hat[k] = ScoreVector(mase.scores_[k])
                /\ mase.labels[k] = graphs[k]
                /\ mase.labels[k] = IF k <= GraphsPerSbm THEN "SBM 1" ELSE "SBM 2"

\* Rows of two score matrices that differ only off the diagonal.
C22_Witness ==
    /\ mase.cell = "scores"
    /\ mase.scores_[1] # mase.scores_[Len(mase.scores_)]
    /\ mase.scores_[1][<<0, 0>>] = mase.scores_[Len(mase.scores_)][<<0, 0>>]
    /\ mase.scores_[1][<<1, 1>>] = mase.scores_[Len(mase.scores_)][<<1, 1>>]
    /\ mase.R_hat[1] # mase.R_hat[Len(mase.R_hat)]
    /\ mase.labels[1] = "SBM 1"
    /\ mase.labels[Len(mase.labels)] = "SBM 2"

\* Equality of two fractions.
SameFraction(a, b) == a.num * b.den = b.num * a.den

\* C23: the sweep samples 15 pairs, the k-th (from 0) at the correlation
\* (k - 5) / 10, from -0.5 to 0.9; the k-th entry of rlist is the rate of
\* the k-th pair and is plotted against the k-th entry of x_list, which is
\* the same correlation: range(-5,10) divided by 10 and
\* np.linspace(-0.5,0.9,15) enumerate the same correlations in one order.
C23_SweepCorrelations ==
    /\ rdpg.cell \in {"sweep", "swept"} =>
          /\ Len(rdpg.rlist) = Len(rdpg.passed)
          /\ Len(rdpg.rlist) = rdpg.at - 1
          /\ \A k \in DOMAIN rdpg.passed :
                SameFraction(rdpg.passed[k], [num |-> (k - 1) - 5, den |-> 10])
          /\ rdpg.rlist # <<>> =>
                rdpg.rlist[Len(rdpg.rlist)] = DifferenceRate(rdpg.g1, rdpg.g2, Size(rdpg.g1))
    /\ rdpg.cell = "swept" =>
          /\ Len(rdpg.rlist) = 15
          /\ SameFraction(rdpg.passed[1], [num |-> -5, den |-> 10])
          /\ SameFraction(rdpg.passed[15], [num |-> 9, den |-> 10])
    /\ (rdpg.cell = "plot" /\ ~rdpg.raised) =>
          /\ Len(rdpg.plotted) = 15
          /\ \A k \in DOMAIN rdpg.plotted :
                /\ rdpg.plotted[k][2] = rdpg.rlist[k]
                /\ SameFraction(rdpg.plotted[k][1], rdpg.passed[k])
                /\ SameFraction(rdpg.plotted[k][1], [num |-> (k - 1) - 5, den |-> 10])

\* A plotted sweep in which the pairs at -0.5 and at 0.9 differ in rate.
C23_Witness ==
    /\ rdpg.cell = "plot"
    /\ ~rdpg.raised
    /\ rdpg.plotted[1][2].num = 0
    /\ rdpg.plotted[15][2].num > 0
    /\ SameFraction(rdpg.plotted[15][1], [num |-> 9, den |-> 10])

\* C24: when the edge-testing cell has been executed a second time without
\* the indices cell being executed again, edge_pvals again holds one record
\* for every pair of the upper triangle, n_vertices * (n_vertices - 1) / 2
\* records.
C24_SecondRunOneRecordPerPair ==
    (mcc.cell = "tested" /\ ~mcc.raised /\ mcc.edge_runs = 2) =>
        /\ 2 * Len(mcc.edge_pvals) = n_vertices * (n_vertices - 1)
        /\ RecordedPairs(mcc.edge_pvals) = TriuIndices(n_vertices)

\* C25: every file a step of the publish job hands to its command or
\* action has been written by an earlier step of the same run that
\* succeeded, before the step executes.
C25_FilesProducedBefore ==
    \A i \in 1..LastStep :
        steps[i] \in {"success", "failure"} =>
            \A f \in StepReads(PublishSteps[i]) :
                \E k \in 1..(i - 1) :
                    /\ steps[k] = "success"
                    /\ f \in StepWrites(PublishSteps[k])

\* C26: the points vis_latent draws are determined by its arguments: a call
\* with the arguments of the call before it plots the same points, whatever
\* V_hat holds at either call.
C26_PlotDeterminedByArguments ==
    [][(/\ mase.called
        /\ mase'.called
        /\ mase'.call.V = mase.call.V
        /\ mase'.call.predicted = mase.call.predicted
        /\ mase'.call.pred_labels = mase.call.pred_labels)
       => mase'.call.plotted = mase.call.plotted]_vars

====
